---- MODULE Spec2Model ----
(***************************************************************************)
(* The grid menu of termenu.py: Menu, SearchMixin, MultiSelectMixin and     *)
(* show_menu.  Option strings are sequences of character codes, so that     *)
(* lower(), substring search and sorted() are computed as Python computes   *)
(* them.  Indexes (selected, first, _indexes) are 0-based as in the source. *)
(***************************************************************************)
EXTENDS Integers, Sequences, FiniteSets, TLC

VARIABLES
    kind,          \* which class show() runs on: "Menu", "Search", "Multi"
    defaultArg,    \* the default argument of the constructor, until show()
    columnsArg,    \* the columns argument of the constructor, until show()
    termWidth,     \* get_terminal_size()[0] as the constructor read it
    allOptions,    \* SearchMixin._allOptions (the options argument)
    options,       \* Menu.options: the visible option list
    indexes,       \* SearchMixin._indexes
    height,        \* Menu.height
    columns,       \* Menu.columns
    selected,      \* Menu.selected
    first,         \* Menu.first
    result,        \* Menu.result
    searchMode,    \* SearchMixin.searchMode
    searchText,    \* SearchMixin.searchText
    selectedItems, \* MultiSelectMixin.selectedItems
    pc,            \* "start", "loop" (waiting for a key), "returned", "raised"
    exitKey,       \* the key whose handler ended show()
    cursor,        \* the last cursor visibility operation: "shown", "hidden"
    cleared,       \* whether _clear_menu has run
    vm,            \* the VerticalMenu built from the same arguments and fed
                   \* the same keys as a one-column Menu
    hist,          \* history: the keys so far, while a prefix of a scenario
    rt,            \* history: progress of a type-then-backspace run
    tog,           \* history: the last space press
    escRun,        \* history: number of consecutive esc presses
    seen           \* history: indexes shown in a window of a pageDown tour

ctor == <<defaultArg, columnsArg, termWidth>>
prog == <<kind, ctor, allOptions, options, indexes, height, columns,
          selected, first, result, searchMode, searchText, selectedItems,
          pc, exitKey, cursor, cleared>>
aux == <<hist, rt, tog, escRun, seen>>
vars == <<prog, aux, vm>>

-----------------------------------------------------------------------------
\* Bounds of the model: the longest generated option list, the longest option
\* list a multi-select widget is built over, the longest search text typed.
MaxN == 5
MaxMulti == 3
MaxQuery == 2

\* src/termenu.py:22
MAX_COLUMNS == 5

Min(a, b) == IF a <= b THEN a ELSE b
Max(a, b) == IF a >= b THEN a ELSE b

-----------------------------------------------------------------------------
\* Inputs.  A string is the sequence of its character codes.

\* ["x", "y", "z"]
XYZ == << <<120>>, <<121>>, <<122>> >>
\* ["apple", "buzz", "fizz", "grape"]
Fruits == << <<97,112,112,108,101>>, <<98,117,122,122>>,
             <<102,105,122,122>>, <<103,114,97,112,101>> >>
\* ["z", "Za", "z"]: a repeated value, mixed case, not sorted
Mixed == << <<122>>, <<90,97>>, <<122>> >>
\* ["a", "b", "c", ...] of length n
Letters(n) == [i \in 1..n |-> <<96 + i>>]

OptionLists == {XYZ, Fruits, Mixed} \cup {Letters(n) : n \in 1..MaxN}

\* the printable characters typed: "z", "Z"
TypedChars == {122, 90}

\* optional arguments: None or a value
None == [isNone |-> TRUE, val |-> <<>>]
Some(v) == [isNone |-> FALSE, val |-> v]
NoneInt == [isNone |-> TRUE, val |-> 0]

\* default: None, one of the options, or "q" that is no option
Defaults(opts) == {None, Some(<<113>>)} \cup {Some(opts[i]) : i \in DOMAIN opts}
ReqHeights == {NoneInt} \cup {Some(h) : h \in 1..MaxN}
ReqColumns == {NoneInt} \cup {Some(c) : c \in {1, 2, 3, 7}}
\* get_terminal_size(): widths and heights of the terminal
TermWidths == {1, 2, 5, 12, 80}
TermHeights == {3, 5, 24}

-----------------------------------------------------------------------------
\* Python's str.lower(), `in` on strings, list indexing, sorted().

LowerChar(c) == IF 65 <= c /\ c <= 90 THEN c + 32 ELSE c
Lower(s) == [i \in DOMAIN s |-> LowerChar(s[i])]

\* needle in hay
Contains(hay, needle) ==
    \E k \in 0..(Len(hay) - Len(needle)) :
        \A j \in 1..Len(needle) : hay[k + j] = needle[j]

\* seq[i] raises IndexError unless -len <= i < len
IndexOK(seq, i) == -Len(seq) <= i /\ i < Len(seq)
PyItem(seq, i) == IF i >= 0 THEN seq[i + 1] ELSE seq[Len(seq) + i + 1]

\* a <= b for strings: by character code, a proper prefix first
StrLeq(a, b) ==
    LET n == Min(Len(a), Len(b))
        diff == {i \in 1..n : a[i] # b[i]}
    IN  IF diff = {} THEN Len(a) <= Len(b)
        ELSE LET i == CHOOSE d \in diff : \A e \in diff : d <= e
             IN  a[i] < b[i]

RECURSIVE Sorted(_)
Sorted(S) ==
    IF S = {} THEN <<>>
    ELSE LET m == CHOOSE x \in S : \A y \in S : StrLeq(x, y)
         IN  <<m>> \o Sorted(S \ {m})

\* the values self.result takes
NoneResult == [type |-> "None", val |-> <<>>]
StrResult(s) == [type |-> "str", val |-> s]
ListResult(l) == [type |-> "list", val |-> l]

-----------------------------------------------------------------------------
\* Menu: construction.

Width(opts) ==
    LET lens == {Len(opts[i]) : i \in DOMAIN opts}
    IN  CHOOSE w \in lens : \A v \in lens : w >= v

Menu_compute_height(reqH, termH, opts) ==
    LET maxHeight == termH - 2
        h == IF reqH.isNone THEN maxHeight ELSE reqH.val
    IN  Min(Len(opts), Min(h, maxHeight))

Menu_compute_columns(reqC, termW, opts) ==
    LET c == IF reqC.isNone THEN MAX_COLUMNS ELSE reqC.val
    IN  Min(c, termW \div (Width(opts) + 1))

\* list.index(default): the first position holding the value
Menu_compute_default(default, opts) ==
    LET hits == {i \in DOMAIN opts : opts[i] = default.val}
        d == IF default.isNone \/ hits = {} THEN 0
             ELSE (CHOOSE i \in hits : \A j \in hits : i <= j) - 1
    IN  Max(0, d % Len(opts))

\* self.first = self.selected - self.selected % self.height
Menu_init_first(sel, h) == sel - (sel % h)

-----------------------------------------------------------------------------
\* Menu: the window and the navigation handlers.  Each handler is the pair
\* <<selected, first>> it leaves, computed from the current state.

Menu_items_in_page == Min(height * columns, Len(options))
Menu_top_right == first + height * (columns - 1)
Menu_bottom_right == first + height * columns - 1
Menu_top_left == first
Menu_bottom_left == first + height - 1

Menu_adjust_selected(sel, fst) ==
    LET n == Len(options)
        s1 == IF sel < 0 THEN 0 ELSE sel
        s2 == IF s1 > n - 1 THEN n - 1 ELSE s1
        f1 == IF fst < 0 THEN 0 ELSE fst
        f2 == IF f1 > n - Menu_items_in_page THEN n - Menu_items_in_page ELSE f1
    IN  <<s2, f2>>

\* variant of Menu_on_down: the window never scrolls
Menu_on_down_no_scroll == Menu_adjust_selected(selected + 1, first)

Menu_on_down ==
    LET f == IF selected = first + Menu_items_in_page - 1 THEN first + 1 ELSE first
    IN  Menu_adjust_selected(selected + 1, f)

Menu_on_up ==
    LET f == IF selected = first THEN first - 1 ELSE first
    IN  Menu_adjust_selected(selected - 1, f)

Menu_on_right ==
    IF selected >= Menu_top_right
    THEN IF selected < Menu_bottom_right
         THEN Menu_adjust_selected(Menu_bottom_right, first)
         ELSE IF selected = Menu_bottom_right
              THEN Menu_adjust_selected(selected + height, first + height)
              ELSE Menu_adjust_selected(selected, first)
    ELSE Menu_adjust_selected(selected + height, first)

Menu_on_left ==
    IF selected <= Menu_bottom_left
    THEN IF selected > Menu_top_left
         THEN Menu_adjust_selected(Menu_top_left, first)
         ELSE IF selected = Menu_top_left
              THEN Menu_adjust_selected(selected - height, first - height)
              ELSE Menu_adjust_selected(selected, first)
    ELSE Menu_adjust_selected(selected - height, first)

\* variant of Menu_on_pageDown: a full page jump that goes one item too far
Menu_on_pageDown_one_too_far ==
    IF selected = first + Menu_items_in_page - 1
    THEN Menu_adjust_selected(selected + Menu_items_in_page + 1,
                              first + Menu_items_in_page + 1)
    ELSE Menu_adjust_selected(first + Menu_items_in_page - 1, first)

Menu_on_pageDown ==
    IF selected = first + Menu_items_in_page - 1
    THEN Menu_adjust_selected(selected + Menu_items_in_page,
                              first + Menu_items_in_page)
    ELSE Menu_adjust_selected(first + Menu_items_in_page - 1, first)

\* variant of Menu_on_pageUp: the page above one item short
Menu_on_pageUp_one_short ==
    IF selected = first
    THEN Menu_adjust_selected(selected - Menu_items_in_page + 1,
                              first - Menu_items_in_page + 1)
    ELSE Menu_adjust_selected(first, first)

Menu_on_pageUp ==
    IF selected = first
    THEN Menu_adjust_selected(selected - Menu_items_in_page,
                              first - Menu_items_in_page)
    ELSE Menu_adjust_selected(first, first)

\* variant of Menu_on_home: the top of the page instead of the first option
Menu_on_home_top_of_page == Menu_adjust_selected(first, first)

Menu_on_home == Menu_adjust_selected(0, 0)

\* variant of Menu_on_end: the window stays where it was
Menu_on_end_no_scroll == Menu_adjust_selected(Len(options) - 1, first)

Menu_on_end ==
    LET s == Len(options) - 1
    IN  Menu_adjust_selected(s, s - Menu_items_in_page + 1)

-----------------------------------------------------------------------------
\* SearchMixin.

\* variant of SearchMixin_matches: the comparison without lower()
SearchMixin_matches_case_sensitive(all, text) ==
    SelectSeq([i \in 1..Len(all) |-> i - 1],
              LAMBDA i : Contains(all[i + 1], text))

\* the 0-based positions of the options the search text is found in
SearchMixin_matches(all, text) ==
    SelectSeq([i \in 1..Len(all) |-> i - 1],
              LAMBDA i : Contains(Lower(all[i + 1]), Lower(text)))

\* _refilter: the options and _indexes it derives (it also resets
\* selected and first to 0, see Refilter below)
SearchMixin_refilter(mode, text) ==
    IF mode
    THEN LET idx == SearchMixin_matches(allOptions, text)
         IN  [options |-> [k \in 1..Len(idx) |-> allOptions[idx[k] + 1]],
              indexes |-> idx]
    ELSE [options |-> allOptions,
          indexes |-> [i \in 1..Len(allOptions) |-> i - 1]]

Refilter(mode, text) ==
    /\ options' = SearchMixin_refilter(mode, text).options
    /\ indexes' = SearchMixin_refilter(mode, text).indexes
    /\ selected' = 0
    /\ first' = 0

\* _dispatch_key: len(key) == 1 and 32 < ord(key) < 127
SearchMixin_is_printable(c) == 32 < c /\ c < 127

\* variant of SearchMixin_backspace_acts: the last character is never dropped
SearchMixin_backspace_acts_keeps_one == searchMode /\ Len(searchText) > 1

\* _on_backspace acts only when this holds
SearchMixin_backspace_acts == searchMode /\ searchText # <<>>

\* variant of SearchMixin_esc_stops_search: esc always goes to Menu._on_esc
SearchMixin_esc_never_stops_search == FALSE

\* _on_esc returns False (after _stop_search) when this holds, and
\* otherwise hands over to Menu._on_esc
SearchMixin_esc_stops_search == searchMode

-----------------------------------------------------------------------------
\* MultiSelectMixin.

\* variant of MultiSelectMixin_toggle: the option is added, never removed
MultiSelectMixin_toggle_add_only(items, option) == items \cup {option}

\* _on_space: remove the option if it is in the set, add it otherwise
MultiSelectMixin_toggle(items, option) ==
    IF option \in items THEN items \ {option} ELSE items \cup {option}

\* variant of MultiSelectMixin_on_space_cursor: the cursor stays
MultiSelectMixin_on_space_cursor_stays == <<selected, first>>

\* _on_space ends with self._on_down(): the cursor it leaves
MultiSelectMixin_on_space_cursor == Menu_on_down

\* _on_enter: the set the result is built from
MultiSelectMixin_enter_items ==
    IF selectedItems = {} THEN {PyItem(options, selected)} ELSE selectedItems

\* _on_enter: list(sorted(self.selectedItems))
MultiSelectMixin_enter_result(items) == ListResult(Sorted(items))

\* _on_esc and the chain below it: MultiSelectMixin._on_esc stores [], then
\* Menu._on_esc (reached when search mode is off) stores None
Menu_on_esc_result == NoneResult
MultiSelectMixin_on_esc_result ==
    IF SearchMixin_esc_stops_search THEN ListResult(<<>>) ELSE Menu_on_esc_result

-----------------------------------------------------------------------------
\* VerticalMenu of termenu/termenu.py, single-select, next to a bare Menu with
\* one column.  Its height is computed as Menu computes height.

VmOff == [on |-> FALSE, selected |-> 0, first |-> 0, result |-> NoneResult,
          pc |-> "loop", keys |-> "basic"]

\* VerticalMenu.__init__: default is None or a string
VerticalMenu_init_selected(default, opts) ==
    LET hits == {i \in DOMAIN opts : opts[i] = default.val}
        d == IF default.isNone \/ hits = {} THEN 0
             ELSE (CHOOSE i \in hits : \A j \in hits : i <= j) - 1
    IN  Max(0, d % Len(opts))

VerticalMenu_first(sel) == sel - (sel % height)

VerticalMenu_init ==
    IF kind = "Menu" /\ columns = 1
    THEN LET s0 == VerticalMenu_init_selected(defaultArg, allOptions)
         IN  [on |-> TRUE, selected |-> s0, first |-> VerticalMenu_first(s0),
              result |-> NoneResult, pc |-> "loop", keys |-> "basic"]
    ELSE VmOff

\* the branch of the key in VerticalMenu.show, before the clamp
VerticalMenu_show_move(k, s) ==
    IF k = "down" THEN s + 1
    ELSE IF k = "up" THEN s - 1
    ELSE IF k = "pageDown"
         THEN IF s % height < height - 1
              THEN s - (s % height) + height - 1
              ELSE s + height
    ELSE IF k = "pageUp"
         THEN IF s % height > 0 THEN s - (s % height) ELSE s - height
    ELSE IF k = "home" THEN 0
    ELSE IF k = "end" THEN Len(allOptions) - 1
    ELSE s

\* the keys so far: only up, down, home, end, enter, esc ("basic"), these and
\* pageUp, pageDown ("paged"), or others too
VerticalMenu_keys(k) ==
    IF k \in {"up", "down", "home", "end", "enter", "esc"} THEN vm.keys
    ELSE IF k \in {"pageUp", "pageDown"}
         THEN IF vm.keys = "basic" THEN "paged" ELSE vm.keys
    ELSE "other"

\* one round of the loop of VerticalMenu.show on key k; "eof" and "source"
\* stand for the key source ending and raising
VerticalMenu_show_key(k) ==
    IF ~vm.on \/ vm.pc # "loop" THEN vm
    ELSE IF k = "enter"
         THEN [vm EXCEPT !.pc = "returned",
                         !.result = StrResult(allOptions[vm.selected + 1])]
    ELSE IF k \in {"esc", "eof"}
         THEN [vm EXCEPT !.pc = "returned", !.result = NoneResult,
                         !.keys = VerticalMenu_keys(k)]
    ELSE IF k = "source"
         THEN [vm EXCEPT !.pc = "raised", !.keys = VerticalMenu_keys(k)]
    ELSE LET s0 == VerticalMenu_show_move(k, vm.selected)
             s1 == IF s0 < 0 THEN 0 ELSE s0
             s2 == IF s1 > Len(allOptions) - 1 THEN Len(allOptions) - 1 ELSE s1
         IN  [vm EXCEPT !.selected = s2, !.first = VerticalMenu_first(s2),
                        !.keys = VerticalMenu_keys(k)]

-----------------------------------------------------------------------------
\* History variables.

KeyOfChar(c) == IF c = 122 THEN "z" ELSE "Z"

\* k down presses
Downs(k) == [i \in 1..k |-> "down"]

\* hist follows the keys pressed on a widget that starts at selected = 0,
\* first = 0, as long as they are the beginning of one of these sequences
Scenarios == { <<"space", "down", "space", "enter">>,
               <<"space", "space", "enter">>,
               <<"z", "enter">>,
               <<"end">>,
               <<"pageDown", "pageDown", "pageDown">> }
             \cup {Append(Downs(k), "enter") : k \in 0..(MaxN + 1)}
Off == <<"-">>
Prefixes == UNION {{SubSeq(s, 1, n) : n \in 0..Len(s)} : s \in Scenarios}
Track(k) == IF hist # Off /\ Append(hist, k) \in Prefixes
            THEN Append(hist, k) ELSE Off

RtOff == [phase |-> "off", k |-> 0, b |-> 0]
RtChar == IF ~searchMode THEN [phase |-> "type", k |-> 1, b |-> 0]
          ELSE IF rt.phase = "type" THEN [rt EXCEPT !.k = rt.k + 1]
          ELSE RtOff
RtBackspace ==
    IF rt.phase \in {"type", "erase"} /\ rt.b < rt.k
    THEN [rt EXCEPT !.phase = "erase", !.b = rt.b + 1]
    ELSE IF rt.phase \in {"erase", "extra"} /\ rt.b = rt.k
         THEN [rt EXCEPT !.phase = "extra"]
         ELSE RtOff

\* tog: the option the last space press toggled and the set before it, kept
\* while only navigation keys follow; n = 2 right after the second press on
\* the same option
TogNone == [n |-> 0, val |-> <<>>, before |-> {}]
TogSpace(v) ==
    IF tog.n = 1 /\ tog.val = v
    THEN [tog EXCEPT !.n = 2]
    ELSE [n |-> 1, val |-> v, before |-> selectedItems]
TogKeep == IF tog.n = 1 THEN tog ELSE TogNone

\* a navigation key, or a key without a handler
AuxPlain(k) ==
    /\ hist' = Track(k)
    /\ rt' = RtOff
    /\ tog' = TogKeep
    /\ escRun' = 0
    /\ seen' = seen
    /\ vm' = VerticalMenu_show_key(k)

\* enter
AuxEnter ==
    /\ hist' = Track("enter")
    /\ rt' = RtOff
    /\ tog' = TogNone
    /\ escRun' = 0
    /\ seen' = seen
    /\ vm' = VerticalMenu_show_key("enter")

-----------------------------------------------------------------------------
\* Construction: Menu.__init__, SearchMixin.__init__, MultiSelectMixin.__init__
\* and show_menu, which passes no columns.

Kinds == {"Menu", "Search", "Multi"}

InitProg ==
    \E k \in Kinds, opts \in OptionLists, rh \in ReqHeights, rc \in ReqColumns,
       tw \in TermWidths, th \in TermHeights :
      \E d \in Defaults(opts) :
        LET h == Menu_compute_height(rh, th, opts)
            s0 == Menu_compute_default(d, opts)
        IN  /\ k # "Menu" => rc = NoneInt
            /\ k = "Multi" => Len(opts) <= MaxMulti
            /\ kind = k
            /\ defaultArg = d
            /\ columnsArg = rc
            /\ termWidth = tw
            /\ allOptions = opts
            /\ options = opts
            /\ indexes = IF k = "Menu" THEN <<>>
                         ELSE [i \in 1..Len(opts) |-> i - 1]
            /\ height = h
            /\ columns = Menu_compute_columns(rc, tw, opts)
            /\ selected = IF k = "Menu" THEN s0 ELSE 0
            /\ first = IF k = "Menu" THEN Menu_init_first(s0, h) ELSE 0
            /\ result = NoneResult
            /\ searchMode = FALSE
            /\ searchText = <<>>
            /\ selectedItems = {}
            /\ pc = "start"
            /\ exitKey = ""
            /\ cursor = "shown"
            /\ cleared = FALSE

InitAux ==
    /\ hist = IF selected = 0 /\ first = 0 THEN <<>> ELSE Off
    /\ rt = RtOff
    /\ tog = TogNone
    /\ escRun = 0

Init == InitProg /\ InitAux /\ seen = {} /\ vm = VerticalMenu_init

-----------------------------------------------------------------------------
\* show(): the first rendering, then one action per key event.

Show ==
    /\ pc = "start"
    /\ pc' = "loop"
    /\ defaultArg' = None
    /\ columnsArg' = NoneInt
    /\ termWidth' = 0
    /\ cursor' = "hidden"
    /\ UNCHANGED <<kind, allOptions, options, indexes, height,
                   columns, selected, first, result, searchMode, searchText,
                   selectedItems, exitKey, cleared>>
    /\ UNCHANGED <<aux, vm>>

\* variant of Navigate: moving the cursor also leaves search mode
Navigate_stops_search(p) ==
    /\ selected' = p[1]
    /\ first' = p[2]
    /\ searchMode' = FALSE
    /\ UNCHANGED <<kind, ctor, allOptions, options, indexes, height,
                   columns, result, searchText, selectedItems,
                   pc, exitKey, cursor, cleared>>

\* a handler that moves the cursor to the pair p and returns None
Navigate(p) ==
    /\ selected' = p[1]
    /\ first' = p[2]
    /\ UNCHANGED <<kind, ctor, allOptions, options, indexes, height,
                   columns, result, searchMode, searchText, selectedItems,
                   pc, exitKey, cursor, cleared>>

\* Menu._dispatch_key finds no handler for the key
NoHandler ==
    UNCHANGED prog

\* the finally clause of show(): _clear_menu(), then ansi.show_cursor()
Menu_show_finally_cursor_kept == cursor
Menu_show_finally_cursor == "shown"
Menu_show_finally ==
    /\ cleared' = TRUE
    /\ cursor' = Menu_show_finally_cursor

\* the handler returned True: show() returns self.result
Return(k) == pc' = "returned" /\ exitKey' = k /\ Menu_show_finally
\* the handler, or the key source, raised: show() propagates the exception
Raise(k) == pc' = "raised" /\ exitKey' = k /\ Menu_show_finally

KeyDown == pc = "loop" /\ Navigate(Menu_on_down) /\ AuxPlain("down")
KeyUp == pc = "loop" /\ Navigate(Menu_on_up) /\ AuxPlain("up")
KeyRight == pc = "loop" /\ Navigate(Menu_on_right) /\ AuxPlain("right")
KeyLeft == pc = "loop" /\ Navigate(Menu_on_left) /\ AuxPlain("left")
KeyPageDown == pc = "loop" /\ Navigate(Menu_on_pageDown) /\ AuxPlain("pageDown")
KeyPageUp == pc = "loop" /\ Navigate(Menu_on_pageUp) /\ AuxPlain("pageUp")
KeyHome == pc = "loop" /\ Navigate(Menu_on_home) /\ AuxPlain("home")
KeyEnd == pc = "loop" /\ Navigate(Menu_on_end) /\ AuxPlain("end")

\* a key no class has a handler for
KeyOther == pc = "loop" /\ NoHandler /\ AuxPlain("other")

\* Menu._on_enter, or MultiSelectMixin._on_enter in the multi-select widget
KeyEnter ==
    /\ pc = "loop"
    /\ IF kind = "Multi"
       THEN IF selectedItems = {} /\ ~IndexOK(options, selected)
            THEN Raise("enter") /\ UNCHANGED <<selectedItems, result>>
            ELSE /\ selectedItems' = MultiSelectMixin_enter_items
                 /\ result' = MultiSelectMixin_enter_result(selectedItems')
                 /\ Return("enter")
       ELSE IF ~IndexOK(options, selected)
            THEN Raise("enter") /\ UNCHANGED <<selectedItems, result>>
            ELSE /\ result' = StrResult(PyItem(options, selected))
                 /\ Return("enter")
                 /\ UNCHANGED selectedItems
    /\ UNCHANGED <<kind, ctor, allOptions, options, indexes, height,
                   columns, selected, first, searchMode, searchText>>
    /\ AuxEnter

\* MultiSelectMixin._on_esc, SearchMixin._on_esc, Menu._on_esc, in the order
\* the classes of the widget chain them
KeyEsc ==
    /\ pc = "loop"
    /\ result' = IF kind = "Multi" THEN MultiSelectMixin_on_esc_result
                 ELSE IF kind = "Search" /\ SearchMixin_esc_stops_search
                      THEN result
                      ELSE Menu_on_esc_result
    /\ IF kind # "Menu" /\ SearchMixin_esc_stops_search
       THEN /\ searchMode' = FALSE
            /\ cursor' = "hidden"
            /\ Refilter(FALSE, searchText)
            /\ UNCHANGED <<pc, exitKey, cleared>>
       ELSE /\ Return("esc")
            /\ UNCHANGED <<searchMode, options, indexes, selected, first>>
    /\ UNCHANGED <<kind, ctor, allOptions, height, columns, searchText,
                   selectedItems>>
    /\ hist' = Track("esc")
    /\ rt' = RtOff
    /\ tog' = TogNone
    /\ escRun' = Min(escRun + 1, 2)
    /\ seen' = seen
    /\ vm' = VerticalMenu_show_key("esc")

\* SearchMixin._on_backspace; the bare Menu has no handler
KeyBackspace ==
    /\ pc = "loop"
    /\ IF kind # "Menu" /\ SearchMixin_backspace_acts
       THEN /\ searchText' = SubSeq(searchText, 1, Len(searchText) - 1)
            /\ Refilter(searchMode, searchText')
       ELSE UNCHANGED <<searchText, options, indexes, selected, first>>
    /\ UNCHANGED <<kind, ctor, allOptions, height, columns, result,
                   searchMode, selectedItems, pc, exitKey, cursor, cleared>>
    /\ hist' = Track("backspace")
    /\ rt' = IF kind = "Menu" THEN RtOff ELSE RtBackspace
    /\ tog' = TogNone
    /\ escRun' = 0
    /\ seen' = seen
    /\ vm' = VerticalMenu_show_key("backspace")

\* SearchMixin._dispatch_key on a printable character (_start_search, append,
\* _refilter); the bare Menu has no handler
KeyChar ==
    /\ pc = "loop"
    /\ \E c \in TypedChars :
        /\ SearchMixin_is_printable(c)
        /\ IF kind # "Menu"
           THEN LET text == IF searchMode THEN searchText ELSE <<>>
                IN  /\ Len(text) < MaxQuery
                    /\ searchMode' = TRUE
                    /\ cursor' = IF searchMode THEN cursor ELSE "shown"
                    /\ searchText' = Append(text, c)
                    /\ Refilter(TRUE, searchText')
           ELSE UNCHANGED <<searchMode, searchText, options, indexes,
                            selected, first, cursor>>
        /\ hist' = Track(KeyOfChar(c))
    /\ UNCHANGED <<kind, ctor, allOptions, height, columns, result,
                   selectedItems, pc, exitKey, cleared>>
    /\ rt' = IF kind = "Menu" THEN RtOff ELSE RtChar
    /\ tog' = TogNone
    /\ escRun' = 0
    /\ seen' = seen
    /\ vm' = VerticalMenu_show_key("char")

\* MultiSelectMixin._on_space; the other widgets have no handler
KeySpace ==
    /\ pc = "loop"
    /\ IF kind = "Multi"
       THEN IF IndexOK(options, selected)
            THEN /\ selectedItems' =
                        MultiSelectMixin_toggle(selectedItems,
                                                PyItem(options, selected))
                 /\ selected' = MultiSelectMixin_on_space_cursor[1]
                 /\ first' = MultiSelectMixin_on_space_cursor[2]
                 /\ tog' = TogSpace(PyItem(options, selected))
                 /\ UNCHANGED <<pc, exitKey, cursor, cleared>>
            ELSE /\ Raise("space")
                 /\ tog' = TogNone
                 /\ UNCHANGED <<selectedItems, selected, first>>
       ELSE /\ tog' = TogNone
            /\ UNCHANGED <<selectedItems, selected, first, pc, exitKey,
                           cursor, cleared>>
    /\ UNCHANGED <<kind, ctor, allOptions, options, indexes, height,
                   columns, result, searchMode, searchText>>
    /\ hist' = Track("space")
    /\ rt' = RtOff
    /\ escRun' = 0
    /\ seen' = seen
    /\ vm' = VerticalMenu_show_key("space")

\* the key source is exhausted (the for loop of show() ends) or raises: the
\* finally clause runs, then show() falls off its end, or the exception
\* propagates
AuxEnd(k) ==
    /\ hist' = Off
    /\ rt' = RtOff
    /\ tog' = TogNone
    /\ escRun' = 0
    /\ seen' = seen
    /\ vm' = VerticalMenu_show_key(k)

KeysExhausted ==
    /\ pc = "loop"
    /\ Return("eof")
    /\ UNCHANGED <<kind, ctor, allOptions, options, indexes, height,
                   columns, selected, first, result, searchMode, searchText,
                   selectedItems>>
    /\ AuxEnd("eof")

KeySourceError ==
    /\ pc = "loop"
    /\ Raise("source")
    /\ UNCHANGED <<kind, ctor, allOptions, options, indexes, height,
                   columns, selected, first, result, searchMode, searchText,
                   selectedItems>>
    /\ AuxEnd("source")

\* what show() hands to its caller: self.result when a handler returned True,
\* nothing (None) when the loop ended with the key source
Menu_show_returns == IF exitKey = "eof" THEN NoneResult ELSE result

Next ==
    \/ Show
    \/ KeyDown
    \/ KeyUp
    \/ KeyRight
    \/ KeyLeft
    \/ KeyPageDown
    \/ KeyPageUp
    \/ KeyHome
    \/ KeyEnd
    \/ KeyOther
    \/ KeyEnter
    \/ KeyEsc
    \/ KeyBackspace
    \/ KeyChar
    \/ KeySpace
    \/ KeysExhausted
    \/ KeySourceError

Spec == Init /\ [][Next]_vars

-----------------------------------------------------------------------------
\* A pageDown tour: show() on a widget with at least one column, then
\* pageDown pressed again and again; seen collects the indexes every window
\* on the way has shown.

WindowAt(f) ==
    {i \in 0..(Len(options) - 1) : f <= i /\ i < f + Menu_items_in_page}

InitPD ==
    /\ InitProg
    /\ InitAux
    /\ columns >= 1
    /\ selected = 0
    /\ first = 0
    /\ seen = WindowAt(0)
    /\ vm = VerticalMenu_init

KeyPageDownTour ==
    /\ pc = "loop"
    /\ Navigate(Menu_on_pageDown)
    /\ seen' = seen \cup WindowAt(first')
    /\ vm' = VerticalMenu_show_key("pageDown")
    /\ UNCHANGED <<hist, rt, tog, escRun>>

NextPD ==
    \/ Show
    \/ KeyPageDownTour

SpecPD == InitPD /\ [][NextPD]_vars /\ WF_vars(Show) /\ WF_vars(KeyPageDownTour)

-----------------------------------------------------------------------------
\* Claims.

IsList(r, l) == r.type = "list" /\ r.val = l
IsStr(r, s) == r.type = "str" /\ r.val = s

\* C1 (as claimed): in the multi-select widget esc pressed outside search
\* mode ends show() with the empty list as result, whatever was selected.
C1_EscReturnsEmptyList ==
    (kind = "Multi" /\ pc = "returned" /\ exitKey = "esc")
        => IsList(result, <<>>)

\* C2 (as claimed): before show() renders the first page, selected is the
\* position of the first option equal to default, and 0 when default is None
\* or no option; in the bare Menu and in the widgets show_menu builds.
C2_Expected ==
    IF defaultArg.isNone \/ ~(\E i \in DOMAIN allOptions : allOptions[i] = defaultArg.val)
    THEN 0
    ELSE (CHOOSE i \in DOMAIN allOptions :
              /\ allOptions[i] = defaultArg.val
              /\ \A j \in 1..(i - 1) : allOptions[j] # defaultArg.val) - 1
C2_DefaultSelectsInitialCursor ==
    pc = "start" => selected = C2_Expected

\* C3 (as claimed): over ["x","y","z"] the keys space, down, space, enter
\* end the multi-select widget with ["x","y"].
C3_ScenarioXY ==
    (kind = "Multi" /\ allOptions = XYZ /\ pc = "returned"
       /\ hist = <<"space", "down", "space", "enter">>)
        => IsList(result, << <<120>>, <<121>> >>)

\* C3 (amended): over ["x","y","z"] the keys space, down, space, enter end
\* the multi-select widget with ["x","z"], and space, space, enter end it
\* with ["x","y"]; space pressed with the cursor on an option toggles that
\* option, moves the cursor as down does and does not end show().
C3_SpaceTogglesAndAdvances ==
    /\ [](/\ (kind = "Multi" /\ allOptions = XYZ /\ pc = "returned"
                /\ hist = <<"space", "down", "space", "enter">>)
               => IsList(result, << <<120>>, <<122>> >>)
          /\ (kind = "Multi" /\ allOptions = XYZ /\ pc = "returned"
                /\ hist = <<"space", "space", "enter">>)
               => IsList(result, << <<120>>, <<121>> >>))
    /\ [][(KeySpace /\ kind = "Multi" /\ IndexOK(options, selected)) =>
            LET o == PyItem(options, selected)
            IN  /\ o \in selectedItems => selectedItems' = selectedItems \ {o}
                /\ o \notin selectedItems => selectedItems' = selectedItems \cup {o}
                /\ selected' = Menu_on_down[1]
                /\ first' = Menu_on_down[2]
                /\ pc' = "loop"
                /\ result' = result]_vars
C3_Witness ==
    /\ kind = "Multi" /\ allOptions = XYZ /\ pc = "returned"
    /\ hist = <<"space", "down", "space", "enter">>
    /\ IsList(result, << <<120>>, <<122>> >>)

\* C4: in search mode the visible list is the options containing the search
\* text, case ignored, in their original order; _indexes is strictly
\* increasing and maps each visible position to its original position; enter
\* in the single-select widget returns the option _indexes maps selected to.
\* Query "z" over apple, buzz, fizz, grape shows buzz, fizz with indexes 1, 2
\* and enter returns buzz.
C4_Matches ==
    {p \in 0..(Len(allOptions) - 1) :
        Contains(Lower(allOptions[p + 1]), Lower(searchText))}
C4_FilterView ==
    /\ searchMode =>
        /\ Len(indexes) = Len(options)
        /\ {indexes[i] : i \in DOMAIN indexes} = C4_Matches
        /\ \A i \in DOMAIN indexes : \A j \in DOMAIN indexes :
              i < j => indexes[i] < indexes[j]
        /\ \A i \in DOMAIN options : options[i] = allOptions[indexes[i] + 1]
    /\ (searchMode /\ kind = "Search" /\ pc = "returned" /\ exitKey = "enter")
        => IsStr(result, allOptions[indexes[selected + 1] + 1])
    /\ (searchMode /\ allOptions = Fruits /\ searchText = <<122>>)
        => options = <<Fruits[2], Fruits[3]>> /\ indexes = <<1, 2>>
    /\ (kind = "Search" /\ allOptions = Fruits /\ pc = "returned"
          /\ hist = <<"z", "enter">>)
        => IsStr(result, Fruits[2])
C4_Witness ==
    /\ kind = "Search" /\ allOptions = Fruits /\ pc = "returned"
    /\ hist = <<"z", "enter">>
    /\ searchMode /\ searchText = <<122>> /\ indexes = <<1, 2>>
    /\ IsStr(result, Fruits[2])

\* C5: with the search behaviour installed esc ends show() exactly when
\* search mode is off; in search mode it leaves search mode, shows the full
\* list again and resets selected and first to 0; outside search mode the
\* single-select widget ends with None.  Two esc presses in a row end show().
C5_EscFinalizesIffNotSearching ==
    /\ [][(KeyEsc /\ kind # "Menu") =>
            /\ (pc' = "returned") <=> ~searchMode
            /\ searchMode =>
                 /\ ~searchMode' /\ pc' = "loop"
                 /\ options' = allOptions /\ selected' = 0 /\ first' = 0
            /\ (~searchMode /\ kind = "Search") => result' = NoneResult]_vars
    /\ [](escRun = 2 => pc = "returned")
C5_Witness ==
    kind = "Search" /\ escRun = 2 /\ pc = "returned" /\ exitKey = "esc"
      /\ result = NoneResult /\ ~searchMode /\ selected = 0 /\ first = 0

\* C6 (as claimed): in every state of the widget, from construction on,
\* 0 <= selected < len(options) and 0 <= first <= max(0, len(options) -
\* itemsInPage), also when the search text matches nothing.
C6_WindowInvariant ==
    pc \in {"start", "loop"} =>
        /\ 0 <= selected /\ selected < Len(options)
        /\ 0 <= first
        /\ first <= Max(0, Len(options) - Min(height * columns, Len(options)))

\* C7: k >= 1 characters typed from outside search mode and then k
\* backspaces leave the visible list equal to the full list with selected and
\* first 0; one more backspace changes nothing.
C7_FilterRoundTrip ==
    /\ []((rt.phase \in {"erase", "extra"} /\ rt.b = rt.k) =>
            /\ rt.k >= 1
            /\ options = allOptions /\ selected = 0 /\ first = 0)
    /\ [][(KeyBackspace /\ rt.phase \in {"erase", "extra"} /\ rt.b = rt.k) =>
            UNCHANGED prog]_vars
C7_Witness ==
    /\ rt.phase = "extra" /\ rt.k = 2 /\ rt.b = 2
    /\ allOptions = Fruits /\ options = Fruits /\ searchMode
    /\ selected = 0 /\ first = 0

\* C8 (as claimed): in the multi-select widget enter always ends show(), and
\* the result lists the selected items (the highlighted option when none was
\* selected) in ascending order without repetition.
C8_EnterReturnsSortedSelection ==
    (kind = "Multi" /\ exitKey = "enter") =>
        /\ pc = "returned"
        /\ result.type = "list"
        /\ selectedItems # {}
        /\ {result.val[i] : i \in DOMAIN result.val} = selectedItems
        /\ \A i \in DOMAIN result.val : \A j \in DOMAIN result.val :
              i < j => (StrLeq(result.val[i], result.val[j])
                          /\ result.val[i] # result.val[j])

\* C9: space on an option, the cursor moved back onto the same option (or
\* left on it, on the last item), and space again leave the set of selected
\* items as it was before the first space.
C9_ToggleTwiceRestores ==
    (kind = "Multi" /\ tog.n = 2) => selectedItems = tog.before
C9_Witness ==
    /\ kind = "Multi" /\ tog.n = 2 /\ allOptions = XYZ /\ options = XYZ
    /\ tog.val = XYZ[1] /\ selected = 1
    /\ tog.before = {XYZ[3]} /\ selectedItems = {XYZ[3]}

\* C10: from selected = 0, first = 0, with height, columns >= 1, pressing
\* pageDown again and again brings selected to the last option and keeps it
\* there, and by then every option has been inside a window.
C10_PageDownTour ==
    /\ <>[](selected = Len(options) - 1)
    /\ [](selected = Len(options) - 1 => seen = 0..(Len(options) - 1))
C10_Witness ==
    /\ Len(options) = 5 /\ height = 2 /\ columns = 1
    /\ selected = 4 /\ first = 3 /\ seen = 0..4

\* C11 (as claimed): when the key source is exhausted outside search mode,
\* show() returns what esc returns there, None from the single-select widgets
\* and the empty list from the multi-select widget, after the same cleanup.
C11_ExhaustedReturnsAsEsc ==
    (pc = "returned" /\ exitKey = "eof" /\ ~searchMode) =>
        /\ IF kind = "Multi" THEN IsList(Menu_show_returns, <<>>)
                             ELSE Menu_show_returns.type = "None"
        /\ cleared
        /\ cursor = "shown"

\* C12: whenever show() has ended, by a return or by an exception of a
\* handler or of the key source, in or out of search mode, _clear_menu has run
\* and the last cursor operation made the cursor visible; while show() waits
\* for a key outside search mode the cursor is hidden.
C12_ScopedTerminal ==
    /\ pc \in {"returned", "raised"} => (cleared /\ cursor = "shown")
    /\ (pc = "loop" /\ ~searchMode) => cursor = "hidden"
C12_Witness ==
    /\ pc = "raised" /\ exitKey = "source" /\ searchMode
    /\ cleared /\ cursor = "shown"

\* C13 (as claimed): whatever columns value is requested and whatever the
\* terminal width, the constructor leaves columns at most MAX_COLUMNS and at
\* most terminalWidth / (width of the widest option + 1).
C13_ColumnsClamped ==
    pc = "start" =>
        columns <= Min(MAX_COLUMNS, termWidth \div (Width(allOptions) + 1))

\* first is a multiple of height * columns
PageAligned(f) ==
    IF height * columns = 0 THEN f = 0 ELSE f % (height * columns) = 0

\* C14 (as claimed): first is a multiple of height * columns in the initial
\* state and after every sequence of navigation keys.
C14_FirstPageAligned ==
    pc \in {"start", "loop"} => PageAligned(first)

\* C14 (amended): home, end, pageUp and pageDown keep first a multiple of
\* height * columns when the number of visible options is a multiple of
\* height * columns, or smaller than it.
C14_PagingKeepsAlignment ==
    [][((KeyHome \/ KeyEnd \/ KeyPageUp \/ KeyPageDown)
          /\ height * columns >= 1
          /\ (Len(options) % (height * columns) = 0
                \/ Len(options) < height * columns)
          /\ PageAligned(first))
        => PageAligned(first')]_vars
C14_Witness ==
    /\ hist = <<"pageDown", "pageDown">>
    /\ Len(options) = 4 /\ height = 2 /\ columns = 1
    /\ selected = 3 /\ first = 2

\* C15: with one column, k down presses from selected = 0, first = 0 leave
\* selected = min(k, N - 1) and first = max(0, selected - height + 1), and
\* enter then returns options[selected] from a single-select widget; a down
\* press moves the window forward only from the last item of the page, and
\* then by one.
C15_AfterDowns(k) ==
    /\ (hist = Downs(k) /\ columns = 1) =>
          /\ selected = Min(k, Len(options) - 1)
          /\ first = Max(0, selected - height + 1)
    /\ (hist = Append(Downs(k), "enter") /\ columns = 1 /\ kind # "Multi") =>
          /\ pc = "returned"
          /\ selected = Min(k, Len(options) - 1)
          /\ IsStr(Menu_show_returns, options[selected + 1])
C15_DownScrollsByOne ==
    /\ [](\A k \in 0..(MaxN + 1) : C15_AfterDowns(k))
    /\ [][(KeyDown /\ columns = 1 /\ first' > first)
            => (first' = first + 1
                  /\ selected = first + Menu_items_in_page - 1)]_vars
C15_Witness ==
    /\ hist = <<"down", "down", "down", "enter">>
    /\ options = Letters(5) /\ height = 3 /\ columns = 1
    /\ selected = 3 /\ first = 1
    /\ pc = "returned" /\ IsStr(Menu_show_returns, <<100>>)

\* C16 (as claimed): the end key sets selected = len - 1 and
\* first = len - items + 1, len the number of visible options and items the
\* value of _items_in_page().
C16_EndAsClaimed ==
    [][KeyEnd => (/\ selected' = Len(options) - 1
                  /\ first' = Len(options) - Menu_items_in_page + 1)]_vars

\* C16 (amended): the end key sets selected = len - 1 and first = len - items.
C16_EndShowsLastPage ==
    [][KeyEnd => (/\ selected' = Len(options) - 1
                  /\ first' = Len(options) - Menu_items_in_page)]_vars
C16_Witness ==
    /\ hist = <<"end">>
    /\ Len(options) = 5 /\ height = 2 /\ columns = 1
    /\ selected = 4 /\ first = 3

\* C17 (as claimed): whenever a pageDown press changes the window, the new
\* window starts where the previous one ended, and whenever a pageUp press
\* changes it, the new window ends where the previous one started.
C17_PagingContiguous ==
    [][/\ (KeyPageDown /\ first' # first)
            => first' = first + Menu_items_in_page
       /\ (KeyPageUp /\ first' # first)
            => first' + Menu_items_in_page = first]_vars

\* C17 (amended): whenever a pageDown press changes the window, the new
\* window starts at min(first + items, len - items), so no row is skipped and
\* the last window overlaps the one before it unless a full page remained;
\* whenever a pageUp press changes the window, the new window starts at
\* max(first - items, 0), or at len - items when first was above that.
C17_PagingNeverSkips ==
    [][/\ (KeyPageDown /\ first' # first)
            => first' = Min(first + Menu_items_in_page,
                            Len(options) - Menu_items_in_page)
       /\ (KeyPageUp /\ first' # first)
            => \/ first' = Max(first - Menu_items_in_page, 0)
               \/ /\ first > Len(options) - Menu_items_in_page
                  /\ first' = Len(options) - Menu_items_in_page]_vars
C17_Witness ==
    /\ hist = <<"pageDown", "pageDown", "pageDown">>
    /\ Len(options) = 5 /\ height = 2 /\ columns = 1
    /\ selected = 4 /\ first = 3

\* the one-column Menu and the VerticalMenu agree: same selected, both ended
\* or neither, and the same result when ended
VerticalAgrees ==
    /\ vm.selected = selected
    /\ (vm.pc = "returned") = (pc = "returned")
    /\ pc = "returned" =>
          (vm.result.type = result.type /\ vm.result.val = result.val)

\* C18 (as claimed): built from the same options, height and default and
\* fed the same keys from up, down, pageUp, pageDown, home, end, enter, esc,
\* the one-column Menu and the VerticalMenu have the same selected after
\* every key and return the same result.
C18_VerticalIsOneColumnGrid ==
    (vm.on /\ vm.keys \in {"basic", "paged"}) => VerticalAgrees

\* C18 (amended): the same with the keys up, down, home, end, enter, esc.
C18_VerticalAgreesWithoutPaging ==
    (vm.on /\ vm.keys = "basic") => VerticalAgrees
C18_Witness ==
    /\ vm.on /\ vm.keys = "basic"
    /\ Len(options) = 5 /\ height = 2
    /\ selected = 2 /\ first = 1 /\ vm.selected = 2 /\ vm.first = 2
    /\ pc = "returned" /\ IsStr(result, <<99>>) /\ IsStr(vm.result, <<99>>)

\* C19 (as claimed): whenever the visible option list is not empty, the
\* cursor is inside the window: first <= selected < first + height * columns.
C19_CursorOnScreen ==
    (pc \in {"start", "loop"} /\ options # <<>>) =>
        (first <= selected /\ selected < first + height * columns)

\* C20 (as claimed): while the search text matches no option, no handler
\* raises, selected stays non-negative, and an enter that ends show() returns
\* options of the original list.
C20_EmptyFilterOperable ==
    (searchMode /\ options = <<>>) =>
        /\ selected >= 0
        /\ pc = "raised" => exitKey = "source"
        /\ (pc = "returned" /\ exitKey = "enter") =>
              \/ /\ result.type = "str"
                 /\ \E i \in DOMAIN allOptions : allOptions[i] = result.val
              \/ /\ result.type = "list"
                 /\ \A j \in DOMAIN result.val :
                       \E i \in DOMAIN allOptions : allOptions[i] = result.val[j]

\* a navigation key, or a key the widget has no handler for
NavigationOrUnhandledKey ==
    \/ KeyDown \/ KeyUp \/ KeyRight \/ KeyLeft
    \/ KeyPageDown \/ KeyPageUp \/ KeyHome \/ KeyEnd
    \/ KeyOther
    \/ (kind # "Multi" /\ KeySpace)
    \/ (kind = "Menu" /\ (KeyBackspace \/ KeyChar))

\* a printable character, backspace, or esc in search mode
FilterKey ==
    kind # "Menu" /\ (KeyChar \/ KeyBackspace \/ (searchMode /\ KeyEsc))

\* C21: a navigation key or a key without a handler leaves searchMode,
\* searchText, the visible options and selectedItems as they were and does
\* not end show(); a filter key leaves selectedItems as it was, and enter in
\* the multi-select widget returns exactly the selected items, whatever the
\* filter shows by then; no step changes the full option list.
C21_FrameConditions ==
    [][/\ \/ (/\ UNCHANGED <<searchMode, searchText, options, selectedItems>>
               /\ pc' = "loop")
          \/ ~NavigationOrUnhandledKey
       /\ \/ UNCHANGED selectedItems
          \/ ~FilterKey
       /\ \/ (/\ pc' = "returned"
               /\ result'.type = "list"
               /\ {result'.val[i] : i \in DOMAIN result'.val} = selectedItems)
          \/ ~(kind = "Multi" /\ selectedItems # {} /\ KeyEnter)
       /\ allOptions' = allOptions]_vars
C21_Witness ==
    /\ kind = "Multi" /\ allOptions = XYZ
    /\ searchMode /\ searchText = <<122>> /\ options = << XYZ[3] >>
    /\ selectedItems = {XYZ[1]}
    /\ pc = "returned" /\ exitKey = "enter" /\ IsList(result, << XYZ[1] >>)

====
